---- MODULE Spec2Model ----
(***************************************************************************)
(* The device session registry of backend/main.py: the module-level dict   *)
(* device_data and the FastAPI handlers that read and write it.            *)
(*                                                                         *)
(* The synchronous handlers run on FastAPI's thread pool and the one       *)
(* async handler (receive_data) on the event loop, so handlers interleave  *)
(* between single dict operations (each atomic under the interpreter       *)
(* lock) and between a dict operation and a time.time() call.  Every       *)
(* action below is one such step of one in-flight request.                 *)
(***************************************************************************)
EXTENDS Integers, Sequences, FiniteSets, TLC

(* ---------------------------- bounds ----------------------------------- *)

\* number of clock advances explored
MaxTicks == 2

\* number of requests explored
MaxRequests == 3

\* staleness threshold of get_latest, in seconds
StaleAfter == 300

\* device identifiers used as esp_id
Ids == {"esp1", "esp2"}

\* request slots: requests that can be in flight at the same time
Workers == {1, 2}

\* amounts by which the clock advances between two steps
TickSteps == {1, StaleAfter}

NoId == "-"

(* ------------------------ JSON values and dicts ------------------------ *)

Num(n) == [kind |-> "num", n |-> n, s |-> "", items |-> <<>>]
Str(s) == [kind |-> "str", n |-> 0, s |-> s, items |-> <<>>]
List(items) == [kind |-> "list", n |-> 0, s |-> "", items |-> items]

\* the empty dict {}
EmptyDict == [k \in {} |-> Num(0)]

\* d[k] = v on a dict
DictSet(d, k, v) == [x \in (DOMAIN d) \cup {k} |-> IF x = k THEN v ELSE d[x]]

\* del d[k] on a dict
DictDel(d, k) == [x \in (DOMAIN d) \ {k} |-> d[x]]

\* bool(d) of a dict
Truthy(d) == DOMAIN d # {}

(* ------------------------- upload payloads ----------------------------- *)

PGood ==
  [hr |-> Num(60), spo2 |-> Num(95), ecg |-> List(<<3>>),
   rest_ecg |-> Num(1), timestamp |-> Str("t0")]

\* a payload with a field the data model does not declare
PTagged ==
  [hr |-> Num(72), spo2 |-> Num(98), ecg |-> List(<<1, 2>>),
   status |-> Str("idle")]

PNoEcg == [hr |-> Num(72), spo2 |-> Num(98)]

PNoHr == [spo2 |-> Num(98), ecg |-> List(<<1, 2>>)]

PNoSpo2 == [hr |-> Num(72), ecg |-> List(<<1, 2>>)]

PBadEcg == [hr |-> Num(72), spo2 |-> Num(98), ecg |-> Str("abc")]

Payloads == {PGood, PTagged, PNoEcg, PNoHr, PNoSpo2, PBadEcg}

RequiredFields == {"hr", "spo2", "ecg"}

\* variant: the model declares ecg optional
ECGData_EcgOptional(payload) ==
  /\ {"hr", "spo2"} \subseteq DOMAIN payload
  /\ payload["hr"].kind = "num"
  /\ payload["spo2"].kind = "num"
  /\ "ecg" \in DOMAIN payload => payload["ecg"].kind = "list"
  /\ "rest_ecg" \in DOMAIN payload => payload["rest_ecg"].kind = "num"
  /\ "timestamp" \in DOMAIN payload => payload["timestamp"].kind = "str"

\* ECGData(**payload) raises no error: the required fields are present and
\* every declared field has its declared type (undeclared fields are ignored)
ECGData(payload) ==
  /\ RequiredFields \subseteq DOMAIN payload
  /\ payload["hr"].kind = "num"
  /\ payload["spo2"].kind = "num"
  /\ payload["ecg"].kind = "list"
  /\ "rest_ecg" \in DOMAIN payload => payload["rest_ecg"].kind = "num"
  /\ "timestamp" \in DOMAIN payload => payload["timestamp"].kind = "str"

(* --------------------------- session records --------------------------- *)

\* variant: the collecting flag is left unset
CollectingRecord_NoFlag(t) ==
  [latest |-> EmptyDict, ready |-> FALSE, last_update |-> t,
   status |-> "collecting", collecting |-> FALSE]

\* the record start_measurement stores
CollectingRecord(t) ==
  [latest |-> EmptyDict, ready |-> FALSE, last_update |-> t,
   status |-> "collecting", collecting |-> TRUE]

\* variant: the upload leaves the collecting flag set
ReadyRecord_StillCollecting(payload, t) ==
  [latest |-> payload, ready |-> TRUE, last_update |-> t,
   status |-> "ready", collecting |-> TRUE]

\* the record receive_data stores
ReadyRecord(payload, t) ==
  [latest |-> payload, ready |-> TRUE, last_update |-> t,
   status |-> "ready", collecting |-> FALSE]

\* the record get_latest stores for an unknown id
IdleRecord(t) ==
  [latest |-> EmptyDict, ready |-> FALSE, last_update |-> t,
   status |-> "idle", collecting |-> FALSE]

(* ------------------------------ state ---------------------------------- *)

VARIABLES
  device_data,  \* the registry: a dict from esp_id to session record
  key_order,    \* the keys of device_data in insertion order
  now,          \* the value time.time() returns
  ticks,        \* clock advances so far
  started,      \* requests received so far
  req,          \* per request slot: the request in flight and its locals
  out,          \* the request answered last, with its answer
  last_write,   \* per id: the latest write to its session (history)
  ecg_values,   \* the argument of a call of process_ecg_to_restecg
  ecg_pc,       \* that call's position: "idle", "call" or "returned"
  restecg       \* the value the call returned

vars ==
  <<device_data, key_order, now, ticks, started, req, out, last_write,
    ecg_values, ecg_pc, restecg>>

\* the variables of a call of process_ecg_to_restecg
ecg_vars == <<ecg_values, ecg_pc, restecg>>

NoInfo == IdleRecord(0)

\* a request slot with no request
NoRequest ==
  [op |-> "none", pc |-> "idle", id |-> NoId, arg |-> EmptyDict,
   info |-> NoInfo, t |-> 0, known |-> FALSE,
   i |-> 0, size |-> 0, keys |-> <<>>, devices |-> <<>>,
   count |-> 0, removed |-> 0,
   code |-> 0, exc |-> "none", resp |-> EmptyDict, clean |-> TRUE]

NoWrite == [op |-> "none", prior |-> "absent", arg |-> EmptyDict]

\* the server has started: an empty registry and no request
RegistryInit ==
  /\ device_data = [k \in {} |-> NoInfo]
  /\ key_order = <<>>
  /\ now = 0
  /\ ticks = 0
  /\ started = 0
  /\ req = [w \in Workers |-> NoRequest]
  /\ out = NoRequest
  /\ last_write = [d \in Ids |-> NoWrite]

\* no handler calls process_ecg_to_restecg
Init ==
  /\ RegistryInit
  /\ ecg_values = <<>>
  /\ ecg_pc = "idle"
  /\ restecg = 0

(* --------------------------- bookkeeping ------------------------------- *)

\* a new request arrives and takes the first free slot, w
Arrives(w) ==
  /\ req[w].pc = "idle"
  /\ \A x \in Workers : x < w => req[x].pc # "idle"
  /\ started < MaxRequests
  /\ started' = started + 1
  /\ UNCHANGED <<now, ticks, ecg_vars>>

\* a request in flight goes on
Continues == UNCHANGED <<now, ticks, started, ecg_vars>>

\* the status string of a response dict
StatusOf(resp) == resp["status"].s

\* variant: the staleness test is >= instead of >
get_latest_response_AtThreshold(info, t) ==
  IF t - info.last_update >= StaleAfter /\ info.ready
  THEN [status |-> Str("stale"),
        message |-> Str("Data is too old, please start new measurement")]
  ELSE IF info.collecting
  THEN [status |-> Str("collecting"),
        message |-> Str("Start data collection now")]
  ELSE IF ~info.ready /\ ~info.collecting
  THEN [status |-> Str("idle"), message |-> Str("Waiting for start signal...")]
  ELSE IF info.ready
  THEN DictSet(info.latest, "status", Str("ready"))
  ELSE [status |-> Str("idle"), message |-> Str("Waiting...")]

\* get_latest's answer once it holds the record info and has read the time t
get_latest_response(info, t) ==
  IF t - info.last_update > StaleAfter /\ info.ready
  THEN [status |-> Str("stale"),
        message |-> Str("Data is too old, please start new measurement")]
  ELSE IF info.collecting
  THEN [status |-> Str("collecting"),
        message |-> Str("Start data collection now")]
  ELSE IF ~info.ready /\ ~info.collecting
  THEN [status |-> Str("idle"), message |-> Str("Waiting for start signal...")]
  ELSE IF info.ready
  THEN DictSet(info.latest, "status", Str("ready"))
  ELSE [status |-> Str("idle"), message |-> Str("Waiting...")]

\* one element of the list list_devices returns
DeviceEntry(esp_id, info, current_time) ==
  [esp_id |-> esp_id,
   status |-> info.status,
   ready |-> info.ready,
   collecting |-> info.collecting,
   last_update |-> info.last_update,
   seconds_ago |-> current_time - info.last_update,
   has_data |-> Truthy(info.latest)]

\* what a poll of d would report in the current state ("absent" if unknown)
Reported(d) ==
  IF d \in DOMAIN device_data
  THEN StatusOf(get_latest_response(device_data[d], now))
  ELSE "absent"

\* the request of w becomes r; when r is answered its slot is free again and
\* r is the request answered last.  A step that writes to the registry is
\* seen by every other request, in flight or answered.
Step(w, r, writes) ==
  /\ req' = [x \in Workers |->
              IF x = w THEN (IF r.pc = "done" THEN NoRequest ELSE r)
              ELSE IF writes /\ req[x].op # "none"
              THEN [req[x] EXCEPT !.clean = FALSE]
              ELSE req[x]]
  /\ out' = IF r.pc = "done" THEN r
            ELSE IF writes /\ out.op # "none" THEN [out EXCEPT !.clean = FALSE]
            ELSE out

\* the request of w takes a step that writes nothing to the registry
Local(w, r) ==
  /\ Step(w, r, FALSE)
  /\ UNCHANGED <<device_data, key_order, last_write>>

\* the request of w takes a step that writes to the registry
Others(w, r) == Step(w, r, TRUE)

\* the request r ends with an answer
Answer(r, code, exc, resp) ==
  [r EXCEPT !.pc = "done", !.code = code, !.exc = exc, !.resp = resp,
            !.i = 0, !.size = 0, !.keys = <<>>]

\* device_data[id] = rec, with the insertion order Python dicts keep
Store(id, rec) ==
  /\ device_data' = DictSet(device_data, id, rec)
  /\ key_order' = IF id \in DOMAIN device_data THEN key_order
                  ELSE Append(key_order, id)

\* del device_data[id]
Delete(id) ==
  /\ device_data' = DictDel(device_data, id)
  /\ key_order' = SelectSeq(key_order, LAMBDA k : k # id)

Wrote(id, op, arg) ==
  last_write' = [last_write EXCEPT
                   ![id] = [op |-> op, prior |-> Reported(id), arg |-> arg]]

(* ------------------------------ clock ---------------------------------- *)

Tick ==
  /\ ticks < MaxTicks
  /\ \E d \in TickSteps : now' = now + d
  /\ ticks' = ticks + 1
  /\ UNCHANGED <<device_data, key_order, started, req, out, last_write,
                 ecg_vars>>

(* ------------------- GET /start/{esp_id} ------------------------------- *)

\* variant: the record is built without reading the clock
start_measurement_NoClock(w, id) ==
  /\ Arrives(w)
  /\ Local(w, [NoRequest EXCEPT !.op = "start", !.pc = "start_store",
                                !.id = id, !.t = 0])

\* a start request arrives; the record to store is built, reading the clock
start_measurement(w, id) ==
  /\ Arrives(w)
  /\ Local(w, [NoRequest EXCEPT !.op = "start", !.pc = "start_store",
                                !.id = id, !.t = now])

\* variant: the start updates the flags and the time of the stored record
\* and keeps its payload
start_measurement_store_KeepsLatest(w) ==
  /\ req[w].pc = "start_store"
  /\ Store(req[w].id,
           [CollectingRecord(req[w].t) EXCEPT
              !.latest = IF req[w].id \in DOMAIN device_data
                         THEN device_data[req[w].id].latest
                         ELSE EmptyDict])
  /\ Wrote(req[w].id, "start", EmptyDict)
  /\ Others(w, [req[w] EXCEPT !.pc = "start_print"])
  /\ Continues

\* device_data[esp_id] = {...}
start_measurement_store(w) ==
  /\ req[w].pc = "start_store"
  /\ Store(req[w].id, CollectingRecord(req[w].t))
  /\ Wrote(req[w].id, "start", EmptyDict)
  /\ Others(w, [req[w] EXCEPT !.pc = "start_print"])
  /\ Continues

\* print(... device_data[esp_id] ...) and the return
start_measurement_return(w) ==
  /\ req[w].pc = "start_print"
  /\ IF req[w].id \in DOMAIN device_data
     THEN Local(w, Answer(req[w], 200, "none",
                [status |-> Str("collecting"), esp_id |-> Str(req[w].id),
                 message |-> Str("Measurement started for " \o req[w].id)]))
     ELSE Local(w, Answer(req[w], 500, "KeyError", EmptyDict))
  /\ Continues

(* ------------------- POST /data/{esp_id} ------------------------------- *)

\* an upload arrives; the payload is validated and, if valid, the record to
\* store is built, reading the clock; an invalid payload is answered 400
receive_data(w, id, payload) ==
  /\ Arrives(w)
  /\ LET r == [NoRequest EXCEPT !.op = "upload", !.id = id, !.arg = payload]
     IN IF ECGData(payload)
        THEN Local(w, [r EXCEPT !.pc = "data_store", !.t = now])
        ELSE Local(w, Answer(r, 400, "HTTPException",
                     [detail |-> Str("Invalid data format")]))

\* variant: the upload is stored only over a collecting session
receive_data_store_IfCollecting(w) ==
  /\ req[w].pc = "data_store"
  /\ IF req[w].id \in DOMAIN device_data /\ device_data[req[w].id].collecting
     THEN /\ Store(req[w].id, ReadyRecord(req[w].arg, req[w].t))
          /\ Wrote(req[w].id, "upload", req[w].arg)
          /\ Others(w, Answer(req[w], 200, "none",
                      [status |-> Str("ok"),
                       message |-> Str("Data received successfully"),
                       esp_id |-> Str(req[w].id)]))
     ELSE Local(w, Answer(req[w], 200, "none",
                  [status |-> Str("ok"),
                   message |-> Str("Data received successfully"),
                   esp_id |-> Str(req[w].id)]))
  /\ Continues

\* variant: every registered session shares the payload dict of the upload
receive_data_store_SharedLatest(w) ==
  /\ req[w].pc = "data_store"
  /\ device_data' =
       [d \in DOMAIN device_data \cup {req[w].id} |->
          IF d = req[w].id THEN ReadyRecord(req[w].arg, req[w].t)
          ELSE [device_data[d] EXCEPT !.latest = req[w].arg]]
  /\ key_order' = IF req[w].id \in DOMAIN device_data THEN key_order
                  ELSE Append(key_order, req[w].id)
  /\ Wrote(req[w].id, "upload", req[w].arg)
  /\ Others(w, Answer(req[w], 200, "none",
              [status |-> Str("ok"),
               message |-> Str("Data received successfully"),
               esp_id |-> Str(req[w].id)]))
  /\ Continues

\* device_data[esp_id] = {...} and the return
receive_data_store(w) ==
  /\ req[w].pc = "data_store"
  /\ Store(req[w].id, ReadyRecord(req[w].arg, req[w].t))
  /\ Wrote(req[w].id, "upload", req[w].arg)
  /\ Others(w, Answer(req[w], 200, "none",
              [status |-> Str("ok"),
               message |-> Str("Data received successfully"),
               esp_id |-> Str(req[w].id)]))
  /\ Continues

(* ------------------- GET /latest/{esp_id} ------------------------------ *)

\* a poll arrives: if esp_id not in device_data
get_latest(w, id) ==
  /\ Arrives(w)
  /\ LET known == id \in DOMAIN device_data
     IN Local(w, [NoRequest EXCEPT !.op = "poll", !.id = id, !.known = known,
                    !.pc = IF known THEN "latest_read" ELSE "latest_init"])

\* unknown id: the idle record is built, reading the clock
get_latest_init(w) ==
  /\ req[w].pc = "latest_init"
  /\ Local(w, [req[w] EXCEPT !.pc = "latest_init_store", !.t = now])
  /\ Continues

\* variant: the unknown id is answered idle and no session is stored
get_latest_init_store_NoStore(w) ==
  /\ req[w].pc = "latest_init_store"
  /\ UNCHANGED <<device_data, key_order>>
  /\ Wrote(req[w].id, "create", EmptyDict)
  /\ Others(w, Answer(req[w], 200, "none",
              [status |-> Str("idle"),
               message |-> Str("Device initialized, waiting for start signal")]))
  /\ Continues

\* unknown id: device_data[esp_id] = {...} and the return
get_latest_init_store(w) ==
  /\ req[w].pc = "latest_init_store"
  /\ Store(req[w].id, IdleRecord(req[w].t))
  /\ Wrote(req[w].id, "create", EmptyDict)
  /\ Others(w, Answer(req[w], 200, "none",
              [status |-> Str("idle"),
               message |-> Str("Device initialized, waiting for start signal")]))
  /\ Continues

\* variant: reading the record refreshes its last_update
get_latest_read_Touch(w) ==
  /\ req[w].pc = "latest_read"
  /\ IF req[w].id \in DOMAIN device_data
     THEN /\ Store(req[w].id,
                   [device_data[req[w].id] EXCEPT !.last_update = now])
          /\ UNCHANGED last_write
          /\ Others(w, [req[w] EXCEPT !.pc = "latest_time",
                                      !.info = device_data[req[w].id]])
     ELSE Local(w, Answer(req[w], 500, "KeyError", EmptyDict))
  /\ Continues

\* known id: info = device_data[esp_id]
get_latest_read(w) ==
  /\ req[w].pc = "latest_read"
  /\ IF req[w].id \in DOMAIN device_data
     THEN Local(w, [req[w] EXCEPT !.pc = "latest_time",
                                  !.info = device_data[req[w].id]])
     ELSE Local(w, Answer(req[w], 500, "KeyError", EmptyDict))
  /\ Continues

\* variant: the status is decided on the record read and the payload is
\* read from the registry again when the answer is built
get_latest_return_Reread(w) ==
  /\ req[w].pc = "latest_time"
  /\ IF req[w].id \in DOMAIN device_data
     THEN Local(w, Answer([req[w] EXCEPT !.t = now], 200, "none",
                  get_latest_response(
                    [req[w].info EXCEPT
                       !.latest = device_data[req[w].id].latest], now)))
     ELSE Local(w, Answer(req[w], 500, "KeyError", EmptyDict))
  /\ Continues

\* known id: the clock is read and the answer computed from info
get_latest_return(w) ==
  /\ req[w].pc = "latest_time"
  /\ Local(w, Answer([req[w] EXCEPT !.t = now], 200, "none",
                     get_latest_response(req[w].info, now)))
  /\ Continues

(* ------------------- GET /devices -------------------------------------- *)

\* a list request arrives: current_time = time.time()
list_devices(w) ==
  /\ Arrives(w)
  /\ Local(w, [NoRequest EXCEPT !.op = "list", !.pc = "devices_iter",
                                !.t = now])

\* for ... in device_data.items(): the iterator is created and remembers
\* the size of the dict
list_devices_iter(w) ==
  /\ req[w].pc = "devices_iter"
  /\ Local(w, [req[w] EXCEPT !.pc = "devices_next", !.i = 0,
                             !.size = Len(key_order), !.keys = key_order])
  /\ Continues

\* the loop reaches the next item and appends its entry
list_devices_append(w) ==
  LET k == key_order[req[w].i + 1]
  IN Local(w, [req[w] EXCEPT
                 !.i = @ + 1,
                 !.devices = Append(@, DeviceEntry(k, device_data[k], req[w].t))])

\* one turn of the loop, or its end and the return.  A dict whose size
\* changed since the iterator was created raises RuntimeError; one whose
\* keys changed but not their number raises or goes on, as the
\* interpreter's table layout decides.
list_devices_next(w) ==
  /\ req[w].pc = "devices_next"
  /\ IF Len(key_order) # req[w].size
     THEN Local(w, Answer(req[w], 500, "RuntimeError", EmptyDict))
     ELSE IF req[w].i >= Len(key_order)
     THEN Local(w, Answer(req[w], 200, "none",
                [total_devices |-> Num(Len(req[w].devices))]))
     ELSE IF key_order = req[w].keys
     THEN list_devices_append(w)
     ELSE \/ Local(w, Answer(req[w], 500, "RuntimeError", EmptyDict))
          \/ list_devices_append(w)
  /\ Continues

(* ------------------- DELETE /device/{esp_id} --------------------------- *)

\* a clear request arrives: if esp_id in device_data
clear_device(w, id) ==
  /\ Arrives(w)
  /\ LET known == id \in DOMAIN device_data
         r == [NoRequest EXCEPT !.op = "clear", !.id = id, !.known = known]
     IN IF known
        THEN Local(w, [r EXCEPT !.pc = "device_del"])
        ELSE Local(w, Answer(r, 200, "none",
                     [status |-> Str("not_found"), esp_id |-> Str(id)]))

\* variant: the delete empties the whole registry
clear_device_del_All(w) ==
  /\ req[w].pc = "device_del"
  /\ IF req[w].id \in DOMAIN device_data
     THEN /\ device_data' = [k \in {} |-> NoInfo]
          /\ key_order' = <<>>
          /\ Wrote(req[w].id, "clear", EmptyDict)
          /\ Others(w, Answer(req[w], 200, "none",
                      [status |-> Str("cleared"), esp_id |-> Str(req[w].id)]))
     ELSE Local(w, Answer(req[w], 500, "KeyError", EmptyDict))
  /\ Continues

\* del device_data[esp_id] and the return
clear_device_del(w) ==
  /\ req[w].pc = "device_del"
  /\ IF req[w].id \in DOMAIN device_data
     THEN /\ Delete(req[w].id)
          /\ Wrote(req[w].id, "clear", EmptyDict)
          /\ Others(w, Answer(req[w], 200, "none",
                      [status |-> Str("cleared"), esp_id |-> Str(req[w].id)]))
     ELSE Local(w, Answer(req[w], 500, "KeyError", EmptyDict))
  /\ Continues

(* ------------------- DELETE /devices/clear ----------------------------- *)

\* a clear-all request arrives: count = len(device_data)
clear_all_devices(w) ==
  /\ Arrives(w)
  /\ Local(w, [NoRequest EXCEPT !.op = "clear_all", !.pc = "clear_clear",
                                !.count = Len(key_order)])

\* device_data.clear() and the return
clear_all_devices_clear(w) ==
  /\ req[w].pc = "clear_clear"
  /\ device_data' = [k \in {} |-> NoInfo]
  /\ key_order' = <<>>
  /\ last_write' = [d \in Ids |->
                      IF d \in DOMAIN device_data
                      THEN [op |-> "clear", prior |-> Reported(d),
                            arg |-> EmptyDict]
                      ELSE last_write[d]]
  /\ Others(w, Answer([req[w] EXCEPT !.removed = Len(key_order)], 200, "none",
              [status |-> Str("cleared"), count |-> Num(req[w].count)]))
  /\ Continues

(* --------------------------- specification ----------------------------- *)

\* a step of the request in flight in slot w
Steps(w) ==
  \/ start_measurement_store(w)
  \/ start_measurement_return(w)
  \/ receive_data_store(w)
  \/ get_latest_init(w)
  \/ get_latest_init_store(w)
  \/ get_latest_read(w)
  \/ get_latest_return(w)
  \/ list_devices_iter(w)
  \/ list_devices_next(w)
  \/ clear_device_del(w)
  \/ clear_all_devices_clear(w)

\* requests are handled concurrently: their steps interleave
Next ==
  \/ Tick
  \/ \E w \in Workers :
       \/ \E id \in Ids : start_measurement(w, id)
       \/ \E id \in Ids, payload \in Payloads : receive_data(w, id, payload)
       \/ \E id \in Ids : get_latest(w, id)
       \/ list_devices(w)
       \/ \E id \in Ids : clear_device(w, id)
       \/ clear_all_devices(w)
       \/ Steps(w)

Spec == Init /\ [][Next]_vars

\* no request is in flight
Quiet == \A x \in Workers : req[x].pc = "idle"

\* requests are handled one after the other: each is answered before the
\* next one arrives
SerialNext ==
  \/ Tick
  \/ \E w \in Workers :
       \/ Quiet /\ \E id \in Ids : start_measurement(w, id)
       \/ Quiet /\ \E id \in Ids, payload \in Payloads :
                     receive_data(w, id, payload)
       \/ Quiet /\ \E id \in Ids : get_latest(w, id)
       \/ Quiet /\ list_devices(w)
       \/ Quiet /\ \E id \in Ids : clear_device(w, id)
       \/ Quiet /\ clear_all_devices(w)
       \/ Steps(w)

SerialSpec == Init /\ [][SerialNext]_vars

\* the payloads ECGData accepts
ValidPayloads == {payload \in Payloads : ECGData(payload)}

\* start, upload, poll and clear requests on the ids, handled concurrently.
\* A request is answered within milliseconds and the staleness threshold is
\* minutes: the clock advances between requests, and the uploads are the
\* ones that reach the registry.
RaceNext ==
  \/ Quiet /\ Tick
  \/ \E w \in Workers :
       \/ \E id \in Ids : start_measurement(w, id)
       \/ \E id \in Ids, payload \in ValidPayloads :
            receive_data(w, id, payload)
       \/ \E id \in Ids : get_latest(w, id)
       \/ \E id \in Ids : clear_device(w, id)
       \/ start_measurement_store(w)
       \/ start_measurement_return(w)
       \/ receive_data_store(w)
       \/ get_latest_init(w)
       \/ get_latest_init_store(w)
       \/ get_latest_read(w)
       \/ get_latest_return(w)
       \/ clear_device_del(w)

RaceSpec == Init /\ [][RaceNext]_vars

(* ------------------- process_ecg_to_restecg ---------------------------- *)

\* the longest sample sequence and the largest sample of the calls checked
MaxLen == 6

MaxSample == 3

\* sample sequences: integer samples, on which the arithmetic is exact,
\* and the constant sequence [5, 5, 5, 5]
EcgInputs ==
  UNION {[1..n -> 0..MaxSample] : n \in 0..MaxLen} \cup {<<5, 5, 5, 5>>}

RECURSIVE SeqSum(_)
\* the sum of a sequence of numbers
SeqSum(xs) == IF Len(xs) = 0 THEN 0 ELSE Head(xs) + SeqSum(Tail(xs))

RECURSIVE SeqMax(_)
\* the largest element of a non-empty sequence of numbers
SeqMax(xs) ==
  IF Len(xs) = 1 THEN Head(xs)
  ELSE LET m == SeqMax(Tail(xs)) IN IF Head(xs) > m THEN Head(xs) ELSE m

\* signal - mean_val, every element times len(signal) to stay in integers
ScaledDev(signal) ==
  [i \in 1..Len(signal) |-> Len(signal) * signal[i] - SeqSum(signal)]

\* np.std(signal) squared, times len(signal)^3: the population variance is
\* the mean of the squared deviations from the mean
ScaledVar(signal) ==
  SeqSum([i \in 1..Len(signal) |-> ScaledDev(signal)[i] * ScaledDev(signal)[i]])

\* variant: max_dev <= k
MaxDevBelow_Inclusive(signal, k) ==
  LET n == Len(signal)
      top == SeqMax([i \in 1..n |-> ScaledDev(signal)[i] * ScaledDev(signal)[i]])
  IN IF ScaledVar(signal) # 0
     THEN n * top <= k * k * ScaledVar(signal)
     ELSE top <= k * k * n * n

\* variant: the deviation is the sample deviation (ddof = 1)
MaxDevBelow_SampleStd(signal, k) ==
  LET n == Len(signal)
      top == SeqMax([i \in 1..n |-> ScaledDev(signal)[i] * ScaledDev(signal)[i]])
  IN IF ScaledVar(signal) # 0
     THEN (n - 1) * top < k * k * ScaledVar(signal)
     ELSE top < k * k * n * n

\* max_dev < k, where max_dev = np.max(np.abs(z)) and
\* z = (signal - mean_val) / (std_val if std_val != 0 else 1); both sides
\* are squared and cleared of their denominators
MaxDevBelow(signal, k) ==
  LET n == Len(signal)
      top == SeqMax([i \in 1..n |-> ScaledDev(signal)[i] * ScaledDev(signal)[i]])
  IN IF ScaledVar(signal) # 0
     THEN n * top < k * k * ScaledVar(signal)
     ELSE top < k * k * n * n

process_ecg_to_restecg(signal) ==
  IF Len(signal) = 0 THEN 0
  ELSE IF MaxDevBelow(signal, 1) THEN 0
  ELSE IF MaxDevBelow(signal, 2) THEN 1
  ELSE 2

\* a caller holds a sample sequence and is about to call the function
EcgInit ==
  /\ RegistryInit
  /\ ecg_values \in EcgInputs
  /\ ecg_pc = "call"
  /\ restecg = 0

\* the call returns
EcgCall ==
  /\ ecg_pc = "call"
  /\ restecg' = process_ecg_to_restecg(ecg_values)
  /\ ecg_pc' = "returned"
  /\ UNCHANGED <<device_data, key_order, now, ticks, started, req, out,
                 last_write, ecg_values>>

EcgNext == EcgCall

EcgSpec == EcgInit /\ [][EcgNext]_vars

(* ------------------------------ claims --------------------------------- *)

\* the request answered last was an op request and no other request has
\* written to the registry since it arrived
Just(op) == out.pc = "done" /\ out.op = op /\ out.clean

\* the session of the request answered last
Session == device_data[out.id]

\* C1: a poll of id that arrives when the latest write to id's session is a
\* start, and that no other write interleaves with, is answered collecting,
\* whatever a poll would have reported before that start
C1_StartThenPollCollecting ==
  (Just("poll") /\ last_write[out.id].op = "start")
    => /\ out.code = 200
       /\ StatusOf(out.resp) = "collecting"
       /\ last_write[out.id].prior
            \in {"absent", "idle", "collecting", "ready", "stale"}

\* the start found a ready session older than the threshold, and the poll
\* after it was answered collecting
C1_Witness ==
  /\ Just("poll")
  /\ last_write[out.id].op = "start"
  /\ last_write[out.id].prior = "stale"
  /\ StatusOf(out.resp) = "collecting"

\* C2: a poll of id that arrives when the latest write to id's session is
\* the upload of p onto a collecting session, and that reads the clock no
\* more than the threshold after it, is answered ready with every field of
\* p at its uploaded value
C2_UploadThenPollReturnsPayload ==
  (/\ Just("poll")
   /\ last_write[out.id].op = "upload"
   /\ last_write[out.id].prior = "collecting"
   /\ out.t - Session.last_update <= StaleAfter)
    => /\ out.code = 200
       /\ StatusOf(out.resp) = "ready"
       /\ \A k \in DOMAIN last_write[out.id].arg :
            /\ k \in DOMAIN out.resp
            /\ out.resp[k] = last_write[out.id].arg[k]

\* the payload lacks one of the fields ECGData requires
LacksRequired(payload) == ~(RequiredFields \subseteq DOMAIN payload)

\* an upload arrived and was answered in the same step
UploadRejectedAtOnce ==
  /\ started' = started + 1
  /\ req' = req
  /\ out'.op = "upload"

\* C3: an upload whose payload lacks a required field is answered with the
\* 400 validation error, never gets to the store, and the step that handles
\* it leaves the registry as it was
C3_InvalidUploadLeavesRegistry ==
  /\ [](/\ \A w \in Workers :
             req[w].op = "upload" => ~LacksRequired(req[w].arg)
        /\ (out.op = "upload" /\ LacksRequired(out.arg))
             => (out.code = 400 /\ out.exc = "HTTPException"))
  /\ [][(UploadRejectedAtOnce /\ LacksRequired(out'.arg))
          => (device_data' = device_data /\ key_order' = key_order)]_vars

\* an upload without the ECG samples was rejected and the session it named
\* is still ready with its payload
C3_Witness ==
  /\ Just("upload")
  /\ out.code = 400
  /\ "ecg" \notin DOMAIN out.arg
  /\ out.id \in DOMAIN device_data
  /\ Session.status = "ready"
  /\ Truthy(Session.latest)

\* C4: a poll of a stored-ready session that nothing wrote to since the poll
\* arrived is answered stale, with the status and the message only, when the
\* clock it reads is more than the threshold past last_update, and ready
\* otherwise; and a poll after a start on a stale session is answered
\* collecting
C4_StaleAfterThreshold ==
  /\ (Just("poll") /\ out.known /\ out.id \in DOMAIN device_data
        /\ Session.status = "ready")
       => /\ out.t - Session.last_update > StaleAfter
               => /\ StatusOf(out.resp) = "stale"
                  /\ DOMAIN out.resp = {"status", "message"}
          /\ out.t - Session.last_update <= StaleAfter
               => StatusOf(out.resp) = "ready"
  /\ (Just("poll") /\ last_write[out.id].op = "start"
        /\ last_write[out.id].prior = "stale")
       => StatusOf(out.resp) = "collecting"

\* a poll was answered stale one second past the threshold
C4_Witness ==
  /\ Just("poll")
  /\ out.id \in DOMAIN device_data
  /\ Session.status = "ready"
  /\ out.t - Session.last_update = StaleAfter + 1
  /\ StatusOf(out.resp) = "stale"

\* a poll was answered ready exactly at the threshold
C4_AtThreshold ==
  /\ Just("poll")
  /\ out.id \in DOMAIN device_data
  /\ Session.status = "ready"
  /\ out.t - Session.last_update = StaleAfter
  /\ StatusOf(out.resp) = "ready"

\* the status a poll reading the clock at t would report for session info
PollStatus(info, t) == StatusOf(get_latest_response(info, t))

\* C5: every entry of an answered list that no write interleaved with
\* carries the status a poll of that id would report at the list's time
C5_ListMatchesPoll ==
  (Just("list") /\ out.code = 200)
    => \A n \in 1..Len(out.devices) :
         LET e == out.devices[n]
         IN e.esp_id \in DOMAIN device_data
              => e.status = PollStatus(device_data[e.esp_id], out.t)

\* a step of the poll in slot w
PollStep(w) ==
  /\ req[w].pc # req'[w].pc
  /\ req[w].op = "poll" \/ req'[w].op = "poll"

\* C6: no step of a poll that found its id registered changes the registry,
\* whatever it answers; a poll that found its id unknown changes the
\* registry in one step only, which stores an idle session with no payload
\* under that id and leaves every other session as it was
C6_PollWritesOnlyForUnknownId ==
  [][\A w \in Workers :
       PollStep(w) =>
         IF req[w].pc = "latest_init_store"
         THEN /\ ~req[w].known
              /\ DOMAIN device_data' = DOMAIN device_data \cup {req[w].id}
              /\ \A d \in DOMAIN device_data \ {req[w].id} :
                   device_data'[d] = device_data[d]
              /\ device_data'[req[w].id].status = "idle"
              /\ ~Truthy(device_data'[req[w].id].latest)
         ELSE /\ device_data' = device_data
              /\ key_order' = key_order]_vars

\* a poll was answered stale and the session still holds its payload, its
\* stored state and its last_update
C6_Witness ==
  /\ Just("poll")
  /\ out.known
  /\ StatusOf(out.resp) = "stale"
  /\ out.id \in DOMAIN device_data
  /\ Session = out.info
  /\ Session.status = "ready"
  /\ Truthy(Session.latest)

\* C7: a poll that found its id unknown is answered idle, and a list that
\* arrives while that creation is the latest write to the id, and that no
\* write interleaves with, has an entry for the id: idle, no data, neither
\* flag set
C7_UnknownIdPolledIdleThenListed ==
  /\ (out.pc = "done" /\ out.op = "poll" /\ ~out.known)
       => (out.code = 200 /\ StatusOf(out.resp) = "idle")
  /\ (Just("list") /\ out.code = 200)
       => \A d \in Ids :
            last_write[d].op = "create"
              => \E n \in 1..Len(out.devices) :
                   /\ out.devices[n].esp_id = d
                   /\ out.devices[n].status = "idle"
                   /\ ~out.devices[n].has_data
                   /\ ~out.devices[n].ready
                   /\ ~out.devices[n].collecting

\* a list was answered with the idle entry of an id a poll created
C7_Witness ==
  /\ Just("list")
  /\ \E d \in Ids, n \in 1..Len(out.devices) :
       /\ last_write[d].op = "create"
       /\ out.devices[n].esp_id = d
       /\ out.devices[n].status = "idle"

\* C8: a registered session holds a non-empty payload exactly when a poll
\* would report it ready or stale and the latest write to it is an upload;
\* a session a poll would report idle or collecting holds none
C8_PayloadIffReadyOrStale ==
  \A d \in DOMAIN device_data :
    /\ Truthy(device_data[d].latest)
         <=> (Reported(d) \in {"ready", "stale"} /\ last_write[d].op = "upload")
    /\ Reported(d) \in {"idle", "collecting"} => ~Truthy(device_data[d].latest)

\* one session is stale and holds its payload while another is collecting
\* and holds none
C8_Witness ==
  \E d, e \in DOMAIN device_data :
    /\ Reported(d) = "stale" /\ Truthy(device_data[d].latest)
    /\ Reported(e) = "collecting" /\ ~Truthy(device_data[e].latest)

\* C9: after an upload is answered 200, and until another request writes,
\* the session of its id is stored ready with the uploaded payload and the
\* time the upload read, whatever a poll would have reported before
C9_UploadAlwaysReady ==
  (Just("upload") /\ out.code = 200)
    => /\ out.id \in DOMAIN device_data
       /\ Session = [latest |-> out.arg, ready |-> TRUE,
                     last_update |-> out.t, status |-> "ready",
                     collecting |-> FALSE]
       /\ last_write[out.id].op = "upload"
       /\ last_write[out.id].arg = out.arg

\* an upload for an id that no request had named before was answered 200
C9_Witness ==
  /\ Just("upload")
  /\ out.code = 200
  /\ last_write[out.id].prior = "absent"
  /\ Session.status = "ready"

\* C10: an answered clear-all reports as its count the number of sessions
\* its clear() removed, and while no other request writes the registry is
\* empty
C10_ClearAllCountsRemoved ==
  (out.pc = "done" /\ out.op = "clear_all")
    => /\ out.resp["count"].n = out.removed
       /\ out.clean => DOMAIN device_data = {}

\* the clear request in flight in slot w takes its step
ClearStep(w) == req[w].op = "clear" /\ req[w].pc # req'[w].pc

\* a clear request arrives: it is answered at once or goes on to delete
ClearArrives ==
  /\ started' = started + 1
  /\ \/ req' = req /\ out'.op = "clear"
     \/ \E w \in Workers : req[w].op = "none" /\ req'[w].op = "clear"

StepOn(b) ==
  \/ \E w \in Workers :
       /\ req[w].op # "none"
       /\ req[w].id = b
       /\ req'[w].pc # req[w].pc
  \/ /\ started' = started + 1
     /\ \/ \E w \in Workers :
             req[w].op = "none" /\ req'[w].op # "none" /\ req'[w].id = b
        \/ req' = req /\ out'.id = b

\* the session of a is what the latest write of a request on a left
AsLastWritten(a) ==
  LET lw == last_write[a]
  IN IF lw.op \in {"none", "clear"}
     THEN a \notin DOMAIN device_data
     ELSE /\ a \in DOMAIN device_data
          /\ device_data[a].latest = lw.arg
          /\ device_data[a].status =
               (IF lw.op = "start" THEN "collecting"
                ELSE IF lw.op = "upload" THEN "ready" ELSE "idle")

\* C12: under every interleaving of start, upload, poll and clear requests
\* on two ids, a step of a request on b leaves the presence and the record
\* of every other id's session as they were, so that the stored state and
\* payload of the session of a are those the latest write of a request on a
\* left, whatever requests on b ran in between
C12_OtherIdsDoNotInterfere ==
  /\ [](\A a \in Ids : AsLastWritten(a))
  /\ [][\A b \in Ids :
          StepOn(b) =>
            \A a \in Ids \ {b} :
              /\ a \in DOMAIN device_data' <=> a \in DOMAIN device_data
              /\ a \in DOMAIN device_data =>
                   device_data'[a] = device_data[a]]_vars

\* an upload to one id was answered while a request on the other id wrote
\* and a third is in flight: each session is as its own requests left it
C12_Witness ==
  /\ out.pc = "done" /\ out.op = "upload" /\ ~out.clean
  /\ out.id \in DOMAIN device_data
  /\ device_data[out.id].latest = out.arg
  /\ \E a \in Ids \ {out.id} :
       /\ a \in DOMAIN device_data
       /\ device_data[a].status = "collecting"
       /\ last_write[a].op = "start"
       /\ \E w \in Workers : req[w].op = "upload" /\ req[w].id = a

\* a complete session record, as one start, upload or unknown-id poll built it
WholeRecord(info) ==
  \/ info = CollectingRecord(info.last_update)
  \/ info = IdleRecord(info.last_update)
  \/ \E payload \in ValidPayloads : info = ReadyRecord(payload, info.last_update)

\* a poll answer built from one record: a ready answer carries every field of
\* one uploaded payload, any other answer a status and a message
WholeAnswer(resp) ==
  IF StatusOf(resp) = "ready"
  THEN \E payload \in ValidPayloads :
         resp = DictSet(payload, "status", Str("ready"))
  ELSE DOMAIN resp = {"status", "message"}

\* C13: under every interleaving with the steps of concurrent start and
\* upload requests on the same id, a poll reads one complete record of the
\* registry and its answer is the answer on that record: a ready answer
\* carries the whole payload of one upload, never the emptied payload of a
\* later start or a part of a payload
C13_PollNeverTorn ==
  /\ [](\A w \in Workers :
          req[w].pc = "latest_time"
            => /\ WholeRecord(req[w].info)
               /\ WholeAnswer(get_latest_response(req[w].info, now)))
  /\ []((out.pc = "done" /\ out.op = "poll" /\ out.code = 200)
          => /\ WholeAnswer(out.resp)
             /\ out.known => out.resp = get_latest_response(out.info, out.t))
  /\ [][\A w \in Workers :
          (req[w].pc = "latest_read" /\ req'[w].pc = "latest_time")
            => req'[w].info = device_data[req[w].id]]_vars

\* a poll holds the ready record it read while a concurrent start has
\* replaced it in the registry by a collecting record with no payload
C13_Witness ==
  \E w \in Workers :
    /\ req[w].pc = "latest_time"
    /\ req[w].info.status = "ready"
    /\ req[w].id \in DOMAIN device_data
    /\ device_data[req[w].id] = CollectingRecord(now)
    /\ StatusOf(get_latest_response(req[w].info, now)) = "ready"

\* the start or upload request in slot w stores its record
WriteStep(w) ==
  /\ req[w].pc \in {"start_store", "data_store"}
  /\ req'[w].pc # req[w].pc

\* a step of a poll of a registered id or of a list request, or the
\* rejection of an upload
ReadOnlyStep ==
  \/ \E w \in Workers :
       /\ req[w].pc \in {"latest_read", "latest_time",
                         "devices_iter", "devices_next"}
       /\ req'[w].pc # req[w].pc
  \/ UploadRejectedAtOnce

SumOfSquares(xs) == SeqSum([i \in 1..Len(xs) |-> xs[i] * xs[i]])

\* len(xs)^2 times the population variance of xs, in its textbook form
\* E[x^2] - E[x]^2
VarianceTimesLenSq(xs) == Len(xs) * SumOfSquares(xs) - SeqSum(xs) * SeqSum(xs)

\* the absolute z-score of sample i of xs is below k (the deviation replaced
\* by 1 when it is zero)
ZScoreBelow(xs, i, k) ==
  LET n == Len(xs)
      d == n * xs[i] - SeqSum(xs)
  IN IF VarianceTimesLenSq(xs) # 0
     THEN d * d < k * k * VarianceTimesLenSq(xs)
     ELSE d * d < k * k * n * n

\* the absolute z-score of sample i of xs is above k
ZScoreAbove(xs, i, k) ==
  LET n == Len(xs)
      d == n * xs[i] - SeqSum(xs)
  IN IF VarianceTimesLenSq(xs) # 0
     THEN d * d > k * k * VarianceTimesLenSq(xs)
     ELSE d * d > k * k * n * n

\* all samples of xs are equal
Constant(xs) == \A i, j \in 1..Len(xs) : xs[i] = xs[j]

C20_ZeroIffEmptyOrConstant ==
  ecg_pc = "returned" =>
    /\ restecg = 0 <=> Constant(ecg_values)
    /\ ~Constant(ecg_values) =>
         /\ \E i \in 1..Len(ecg_values) : ~ZScoreBelow(ecg_values, i, 1)
         /\ restecg \in {1, 2}

\* the call on samples of two values, each at z-score exactly 1, returned 1
C20_Witness ==
  /\ ecg_pc = "returned"
  /\ ecg_values = <<1, 2, 2, 1>>
  /\ \A i \in 1..4 : ~ZScoreBelow(ecg_values, i, 1) /\ ~ZScoreAbove(ecg_values, i, 1)
  /\ restecg = 1

\* every start request on id has been answered
StartCompleted(id) ==
  \A w \in Workers : ~(req[w].op = "start" /\ req[w].id = id)

\* C16: once the start on an id has completed, no step of a poll takes its
\* session out of collecting: the session stays collecting across every
\* poll step, the implicit idle creation of a poll that found the id
\* unknown before the start included
C16_NoPollLosesStart ==
  [][\A w \in Workers :
       PollStep(w) =>
         \A d \in DOMAIN device_data :
           (device_data[d].collecting /\ StartCompleted(d))
             => /\ d \in DOMAIN device_data'
                /\ device_data'[d].collecting]_vars

\* C17: every poll is answered, with one of the statuses idle, collecting,
\* stale and ready, whatever clear and clear-all requests run concurrently
C17_PollNeverFails ==
  (out.pc = "done" /\ out.op = "poll")
    => /\ out.code = 200
       /\ out.exc = "none"
       /\ StatusOf(out.resp) \in {"idle", "collecting", "stale", "ready"}

\* the three shapes of a session record
IdleShape(info) ==
  /\ info.status = "idle" /\ ~info.ready /\ ~info.collecting
  /\ ~Truthy(info.latest)

CollectingShape(info) ==
  /\ info.status = "collecting" /\ ~info.ready /\ info.collecting
  /\ ~Truthy(info.latest)

ReadyShape(info) ==
  /\ info.status = "ready" /\ info.ready /\ ~info.collecting
  /\ Truthy(info.latest)

\* the answer of the last branch of get_latest
DefaultIdle == [status |-> Str("idle"), message |-> Str("Waiting...")]

\* C18: every stored session record, and every record a poll holds, is idle
\* with no flag set and an empty payload, collecting with only the
\* collecting flag set and an empty payload, or ready with only the ready
\* flag set and a non-empty payload; so ready and collecting are never both
\* set, and no poll gives the default idle answer of get_latest's last
\* branch
C18_ThreeRecordShapes ==
  /\ \A d \in DOMAIN device_data :
       /\ \/ IdleShape(device_data[d])
          \/ CollectingShape(device_data[d])
          \/ ReadyShape(device_data[d])
       /\ ~(device_data[d].ready /\ device_data[d].collecting)
  /\ \A w \in Workers :
       req[w].pc = "latest_time"
         => /\ \/ IdleShape(req[w].info)
               \/ CollectingShape(req[w].info)
               \/ ReadyShape(req[w].info)
            /\ get_latest_response(req[w].info, now) # DefaultIdle
  /\ (out.pc = "done" /\ out.op = "poll" /\ out.code = 200)
       => out.resp # DefaultIdle

\* a ready session with its payload and a collecting session are stored,
\* and a poll was answered ready
C18_Witness ==
  /\ \E a, b \in DOMAIN device_data :
       ReadyShape(device_data[a]) /\ CollectingShape(device_data[b])
  /\ out.pc = "done" /\ out.op = "poll" /\ out.code = 200
  /\ StatusOf(out.resp) = "ready"

\* the start signal of id is in effect: the latest write of a start, upload
\* or clear request to id's session is a start (a poll's idle creation over
\* a collecting session is none of these)
StartInEffect(id) ==
  \/ last_write[id].op = "start"
  \/ last_write[id].op = "create" /\ last_write[id].prior = "collecting"

\* C19: a poll of id that begins after the latest write to id's session
\* gives a ready answer only with the payload of the upload that is the
\* latest write, never one from before a later start, and, once the start
\* has completed, answers collecting while the start is in effect, that is
\* until an upload (or a clear) has followed the start
C19_NoPayloadFromBeforeStart ==
  (Just("poll") /\ out.code = 200)
    => /\ StatusOf(out.resp) = "ready"
            => /\ last_write[out.id].op = "upload"
               /\ out.resp = DictSet(last_write[out.id].arg, "status",
                                      Str("ready"))
       /\ (StartInEffect(out.id) /\ StartCompleted(out.id))
            => StatusOf(out.resp) = "collecting"

====
